---- MODULE Spec2Model ----
\* Verification model of extract_cg.py: the MP4 atom walk (parse_mp4_atoms),
\* the payload extraction (extract_mp4_video), the 'ftyp' signature scanner
\* (extract_unity_videos), the UnityPy strategy (extract_unitypy_videos) and
\* the driver (main).
EXTENDS Integers, Sequences, FiniteSets, TLC

VARIABLES
    \* --- parse_mp4_atoms / extract_mp4_video run on their own (SpecParse)
    data,             \* the buffer handed to the function
    start_pos,        \* its start offset
    apos,             \* parse_mp4_atoms' local 'pos'
    atoms,            \* parse_mp4_atoms' local 'atoms'
    ppc,              \* "loop" | "parsed" | "returned"
    video_data,       \* what extract_mp4_video returned
    \* --- the driver and the two strategies (SpecMain, SpecScan)
    input,            \* what --input names: [kind, entries]
    out_ok,           \* whether ensure_dir(output_path) succeeds
    files,            \* main's 'files': the enumerated input files
    idx,              \* main's loop position (1-based, as enumerate(files, 1))
    pc,               \* where main is
    extracted,        \* main's 'extracted' for the current file
    total_extracted,  \* main's 'total_extracted'
    exit_code,        \* -1 while running, else the process' exit status
    content,          \* extract_unity_videos' 'content'
    pos,              \* extract_unity_videos' 'pos'
    video_index,      \* extract_unity_videos' 'video_index'
    extracted_count,  \* extract_unity_videos' 'extracted_count'
    disk,             \* every output file written, with the input file it was written for
    calls,            \* history: start offsets handed to extract_mp4_video in this scan
    log               \* history: the strategies that returned and the counts reported

parseVars == <<data, start_pos, apos, atoms, ppc, video_data>>
mainVars == <<input, out_ok, files, idx, pc, extracted, total_extracted, exit_code>>
scanVars == <<content, pos, video_index, extracted_count, calls>>
vars == <<parseVars, mainVars, scanVars, disk, log>>
\* main's variables that extract_unity_videos leaves alone
drvVars == <<input, out_ok, files, idx, total_extracted, exit_code>>

----------------------------------------------------------------------------
\* Bytes and buffers

Min(a, b) == IF a < b THEN a ELSE b

\* ASCII tags
FTYP == <<102, 116, 121, 112>>
MOOV == <<109, 111, 111, 118>>
MDAT == <<109, 100, 97, 116>>

\* struct.pack('>I', n)
BE32(n) == <<(n \div 16777216) % 256, (n \div 65536) % 256, (n \div 256) % 256, n % 256>>

\* struct.unpack('>I', b)[0]
Unpack(b) == b[1] * 16777216 + b[2] * 65536 + b[3] * 256 + b[4]

\* A buffer is an explicit byte sequence 'head' followed by 'pad' zero bytes.
BufLen(b) == Len(b.head) + b.pad

\* b[i] (0-based), for 0 <= i < len(b)
ByteAt(b, i) == IF i < Len(b.head) THEN b.head[i + 1] ELSE 0

\* b[from:to] as bytes (Python slicing clamps both ends to len(b))
Bytes(b, from, to) ==
    LET f == Min(from, BufLen(b))
        t == Min(to, BufLen(b))
    IN  [k \in 1..(t - f) |-> ByteAt(b, f + k - 1)]

\* A slice b[from:to] of buffer b kept as its two clamped offsets; None is NoSlice.
NoSlice == [from |-> -1, to |-> -1]
Slice(b, from, to) ==
    LET f == Min(from, BufLen(b))
        t == Min(to, BufLen(b))
    IN  [from |-> f, to |-> IF t < f THEN f ELSE t]
SliceLen(v) == v.to - v.from

\* whether the bytes 'tag' stand at offset i of b, wholly before offset 'to'
TagAt(b, i, to, tag) ==
    /\ i >= 0
    /\ i + Len(tag) <= to
    /\ \A k \in 1..Len(tag) : ByteAt(b, i + k - 1) = tag[k]

\* v.startswith(tag) for a slice v of b
StartsWith(b, v, tag) == v # NoSlice /\ TagAt(b, v.from, v.to, tag)

\* tag in v, for a slice v of b. Every byte of a tag is non-zero, so an
\* occurrence lies wholly inside b.head.
Contains(b, v, tag) ==
    \E i \in v.from..(Min(v.to, Len(b.head)) - Len(tag)) : TagAt(b, i, v.to, tag)

\* b.find(tag, from)
Find(b, tag, from) ==
    LET hits == {i \in from..(Len(b.head) - Len(tag)) : TagAt(b, i, BufLen(b), tag)}
    IN  IF hits = {} THEN -1 ELSE CHOOSE i \in hits : \A j \in hits : i <= j

----------------------------------------------------------------------------
\* parse_mp4_atoms

\* line 27: while pos < len(data) - 8
LoopGuard(b, p) == p < BufLen(b) - 8

\* line 29: if pos + 8 > len(data): break
HeaderCut(b, p) == p + 8 > BufLen(b)

\* line 32
atom_size(b, p) == Unpack(Bytes(b, p, p + 4))

\* line 33
atom_type(b, p) == Bytes(b, p + 4, p + 8)

\* line 36: if atom_size < 8 or atom_size > len(data) - pos: break
\* (the same test without its upper bound, a fault C2 must detect)
SizeBadMut(b, p) == atom_size(b, p) < 8
SizeBad(b, p) == atom_size(b, p) < 8 \/ atom_size(b, p) > BufLen(b) - p

\* one more atom is appended at cursor p
Continues(b, p) == LoopGuard(b, p) /\ ~HeaderCut(b, p) /\ ~SizeBad(b, p)

\* line 39
Atom(b, p) == [type |-> atom_type(b, p), pos |-> p, size |-> atom_size(b, p)]

RECURSIVE AtomsFrom(_, _)
AtomsFrom(b, p) ==
    IF Continues(b, p) THEN <<Atom(b, p)>> \o AtomsFrom(b, p + atom_size(b, p)) ELSE <<>>

parse_mp4_atoms(b, s) == AtomsFrom(b, s)

----------------------------------------------------------------------------
\* extract_mp4_video

MinRemaining == 1000
MaxWindow == 104857600

\* lines 56-63: whether the loop left moov_pos set
HasMoov(ats) == \E i \in 1..Len(ats) : ats[i].type = MOOV

\* lines 68-72
StructSlice(b, s, ats) == Slice(b, s, ats[Len(ats)].pos + ats[Len(ats)].size)

\* lines 80-87
WindowSlice(b, s) == Slice(b, s, Min(s + MaxWindow, BufLen(b)))
WindowOk(b, s) ==
    /\ BufLen(b) - s > MinRemaining
    /\ (Contains(b, WindowSlice(b, s), MOOV) \/ Contains(b, WindowSlice(b, s), MDAT))

\* lines 52-89, given the parsed atoms
ExtractFrom(b, s, ats) ==
    IF ats = <<>> THEN NoSlice
    ELSE IF HasMoov(ats) /\ StartsWith(b, StructSlice(b, s, ats), FTYP)
         THEN StructSlice(b, s, ats)
    ELSE IF WindowOk(b, s) THEN WindowSlice(b, s)
    ELSE NoSlice

extract_mp4_video(b, s) == ExtractFrom(b, s, parse_mp4_atoms(b, s))

----------------------------------------------------------------------------
\* Inputs: buffers built from a few chunks, followed by zero padding.
\* Every byte is below 128, so a size field stays below 2^31.

MaxChunks == 3

Chunk ==
    { BE32(8) \o FTYP, BE32(8) \o MOOV, BE32(8) \o MDAT,
      BE32(16) \o MDAT, <<0>>, FTYP }

RECURSIVE Heads(_)
Heads(n) ==
    IF n = 0 THEN {<<>>}
    ELSE LET H == Heads(n - 1) IN H \cup {h \o c : h \in H, c \in Chunk}

Pads == {0, MinRemaining - 8, MaxWindow}

Buffers == [head : Heads(MaxChunks), pad : Pads]

\* start offsets tried on a buffer: every offset of the explicit bytes, and
\* the last offsets of the buffer
StartOffsets(b) ==
    {s \in (0..Len(b.head)) \cup ((BufLen(b) - 9)..BufLen(b)) : s >= 0}

EmptyBuffer == [head |-> <<>>, pad |-> 0]

----------------------------------------------------------------------------
\* SpecParse: parse_mp4_atoms step by step, then extract_mp4_video's decision

restIdle ==
    /\ input = [kind |-> "missing", entries |-> <<>>]
    /\ out_ok = FALSE /\ files = <<>> /\ idx = 0
    /\ pc = "idle" /\ extracted = 0 /\ total_extracted = 0 /\ exit_code = -1
    /\ content = EmptyBuffer /\ pos = 0 /\ video_index = 0 /\ extracted_count = 0
    /\ disk = {} /\ calls = <<>> /\ log = <<>>

InitParse ==
    /\ data \in Buffers
    /\ start_pos \in StartOffsets(data)
    /\ apos = start_pos
    /\ atoms = <<>>
    /\ ppc = "loop"
    /\ video_data = NoSlice
    /\ restIdle

\* lines 27-42: one iteration that appends an atom
ParseStep ==
    /\ ppc = "loop"
    /\ Continues(data, apos)
    /\ atoms' = Append(atoms, Atom(data, apos))
    /\ apos' = apos + atom_size(data, apos)
    /\ UNCHANGED <<data, start_pos, ppc, video_data, mainVars, scanVars, disk, log>>

\* lines 27, 30, 37, 44: the loop ends and the atoms are returned
ParseStop ==
    /\ ppc = "loop"
    /\ ~Continues(data, apos)
    /\ ppc' = "parsed"
    /\ UNCHANGED <<data, start_pos, apos, atoms, video_data, mainVars, scanVars, disk, log>>

\* lines 52-89
Extract ==
    /\ ppc = "parsed"
    /\ video_data' = ExtractFrom(data, start_pos, atoms)
    /\ ppc' = "returned"
    /\ UNCHANGED <<data, start_pos, apos, atoms, mainVars, scanVars, disk, log>>

NextParse == ParseStep \/ ParseStop \/ Extract

SpecParse == InitParse /\ [][NextParse]_vars

\* the interpreter runs the function to its return
FairSpecParse == SpecParse /\ WF_vars(NextParse)

----------------------------------------------------------------------------
\* Claims about parse_mp4_atoms and extract_mp4_video (SpecParse)

\* the step-by-step walk and the recursive operator are the same function
StepwiseAgrees == ppc # "loop" => atoms = parse_mp4_atoms(data, start_pos)

LastEnd(ats) == ats[Len(ats)].pos + ats[Len(ats)].size

C2_Shape ==
    /\ atoms # <<>> => atoms[1].pos = start_pos
    /\ \A i \in 1..Len(atoms) : atoms[i].size >= 8
    /\ \A i \in 1..(Len(atoms) - 1) : atoms[i + 1].pos = atoms[i].pos + atoms[i].size
    /\ atoms # <<>> => LastEnd(atoms) <= BufLen(data)
    /\ BufLen(data) - start_pos < 8 => atoms = <<>>

\* C2: for every buffer and start offset s in 0..len, parse_mp4_atoms
\* terminates, and the records it has collected (at every step, hence in its
\* result) start at s, have length >= 8, are contiguous and end within the
\* buffer; with fewer than 8 bytes from s the result is empty.
C2_ParseWellFormed == [](C2_Shape) /\ <>(ppc # "loop")

\* a run from a non-zero start offset that collected two records
C2_Witness == ppc = "parsed" /\ start_pos > 0 /\ Len(atoms) >= 2

\* the three stop conditions as the claim C9 lists them, at cursor p
ClaimedStop(b, p) ==
    \/ BufLen(b) - p < 8
    \/ atom_size(b, p) < 8
    \/ atom_size(b, p) > BufLen(b) - p

\* C9: the walk stops at a cursor only if fewer than 8 bytes remain, or the
\* size field is < 8, or the size exceeds the bytes remaining; so a
\* well-formed record in exactly the last 8 bytes is part of the result.
C9_WalkStopsOnlyAsSpecified == ppc = "parsed" => ClaimedStop(data, apos)

\* b is exactly an 'ftyp' record, a 'moov' record and an 'mdat' record
RecordAt(b, p, tag) ==
    /\ p + 8 <= BufLen(b)
    /\ atom_type(b, p) = tag
    /\ atom_size(b, p) >= 8
    /\ p + atom_size(b, p) <= BufLen(b)
IsFtypMoovMdat(b) ==
    /\ RecordAt(b, 0, FTYP)
    /\ RecordAt(b, atom_size(b, 0), MOOV)
    /\ RecordAt(b, atom_size(b, 0) + atom_size(b, atom_size(b, 0)), MDAT)
    /\ LET p3 == atom_size(b, 0) + atom_size(b, atom_size(b, 0))
       IN  p3 + atom_size(b, p3) = BufLen(b)

\* C1: on a buffer that is exactly ftyp record + moov record + mdat record,
\* extract_mp4_video at offset 0 returns the whole buffer.
C1_RoundTrip ==
    (ppc = "returned" /\ start_pos = 0 /\ IsFtypMoovMdat(data))
        => video_data = Slice(data, 0, BufLen(data))

\* C8: with a non-empty record sequence holding no 'moov', the window
\* data[start : min(start + 100 MiB, len)] is returned if and only if at
\* least 1000 bytes remain from start and the window holds 'moov' or 'mdat';
\* otherwise, and whenever the sequence is empty, the result is None.
C8_WindowIff ==
    /\ (ppc = "returned" /\ atoms = <<>>) => video_data = NoSlice
    /\ (ppc = "returned" /\ atoms # <<>> /\ ~HasMoov(atoms)) =>
         LET w == Slice(data, start_pos, Min(start_pos + MaxWindow, BufLen(data)))
             claimed == /\ BufLen(data) - start_pos >= MinRemaining
                        /\ (Contains(data, w, MOOV) \/ Contains(data, w, MDAT))
         IN  video_data = IF claimed THEN w ELSE NoSlice

\* C10: when the record sequence holds a 'moov' record, any slice returned is
\* exactly data[start : end of the last record].
C10_MoovPathExact ==
    (ppc = "returned" /\ HasMoov(atoms) /\ video_data # NoSlice)
        => video_data = Slice(data, start_pos, LastEnd(atoms))

----------------------------------------------------------------------------
\* Input files, output paths

MaxFiles == 2
MaxObjects == 2

\* file names, as character sequences
Names == { <<"a", ".", "x">>, <<"a", ".", "y">>, <<"b">>, <<".", "h">> }

\* name.rfind('.'), 0-based, -1 when there is none
RFindDot(name) ==
    LET dots == {i \in 1..Len(name) : name[i] = "."}
    IN  IF dots = {} THEN -1 ELSE (CHOOSE i \in dots : \A j \in dots : j <= i) - 1

\* Path(file_path).stem (lines 101, 161)
Stem(name) ==
    LET i == RFindDot(name)
    IN  IF 0 < i /\ i < Len(name) - 1 THEN SubSeq(name, 1, i) ELSE name

\* line 102: os.path.join(output_dir, file_name + "_videos")
VideosDir(f) == Stem(f.name) \o <<"_videos">>

\* line 162: os.path.join(output_dir, file_name + "_unitypy_videos")
UnityPyDir(f) == Stem(f.name) \o <<"_unitypy_videos">>

\* line 264: filename.startswith('.')
Hidden(name) == Len(name) > 0 /\ name[1] = "."

\* the content of a file that cannot be opened or read
Unreadable == [head |-> <<>>, pad |-> -1]

\* content of the driver's readable input files: an occurrence of the
\* signature below offset 4, a rejected candidate and an accepted candidate
\* (SpecScan runs the scanner over every buffer of Buffers)
MainContents ==
    { [head |-> FTYP \o FTYP \o BE32(8) \o FTYP \o BE32(8) \o MDAT, pad |-> MinRemaining - 8] }

\* a directory entry: stat_ok is FALSE for a dangling symbolic link, which
\* os.walk lists among the file names
Entries(contents) ==
    {e \in [name : Names, stat_ok : BOOLEAN, content : contents \cup {Unreadable}] :
        ~e.stat_ok => e.content = Unreadable}

RECURSIVE EntrySeqs(_, _)
EntrySeqs(n, contents) ==
    IF n = 0 THEN {<<>>}
    ELSE LET S == EntrySeqs(n - 1, contents)
         IN  S \cup {Append(q, e) : q \in {x \in S : Len(x) = n - 1}, e \in Entries(contents)}

DistinctNames(q) == \A i, j \in 1..Len(q) : i # j => q[i].name # q[j].name

Inputs ==
    {[kind |-> "missing", entries |-> <<>>]}
    \cup {[kind |-> "file", entries |-> <<e>>] : e \in {x \in Entries(MainContents) : x.stat_ok}}
    \cup {[kind |-> "dir", entries |-> q] :
            q \in {x \in EntrySeqs(MaxFiles, MainContents) : DistinctNames(x)}}

\* lines 258-266
RECURSIVE Visible(_)
Visible(q) ==
    IF q = <<>> THEN <<>>
    ELSE IF Hidden(q[1].name) THEN Visible(Tail(q)) ELSE <<q[1]>> \o Visible(Tail(q))
Collected(inp) == IF inp.kind = "file" THEN inp.entries ELSE Visible(inp.entries)

----------------------------------------------------------------------------
\* extract_unitypy_videos: what the UnityPy adapter hands back is an input

MinBlobLen == 1000
VideoTypes == {"VideoClip", "MovieTexture"}
NoBlob == [head |-> <<>>, pad |-> -1]

\* blobs: parsable MP4, bytes that begin with 'ftyp', no signature, too short
ObjBlobs ==
    { [head |-> BE32(8) \o FTYP \o BE32(8) \o MDAT, pad |-> MinRemaining - 8],
      [head |-> FTYP, pad |-> MinRemaining],
      [head |-> <<0>>, pad |-> MinRemaining],
      [head |-> BE32(8) \o FTYP, pad |-> 0] }

\* lines 205-222: the bytes written for a blob, NoSlice when ext is '.bin'
\* or the blob is skipped
Mp4Of(raw) ==
    IF raw = NoBlob \/ ~(BufLen(raw) > MinBlobLen) THEN NoSlice
    ELSE IF StartsWith(raw, Slice(raw, 0, BufLen(raw)), FTYP) THEN Slice(raw, 0, BufLen(raw))
    ELSE LET ftyp_pos == Find(raw, FTYP, 0)
         IN  IF ftyp_pos # -1 /\ ftyp_pos >= 4
             THEN extract_mp4_video(raw, ftyp_pos - 4)
             ELSE NoSlice

\* Mp4Of over the blobs, computed once
Mp4Table == [r \in ObjBlobs \cup {NoBlob} |-> Mp4Of(r)]

\* lines 178-225: the object reaches the open() of line 226
ReachesWrite(o) == o.type \in VideoTypes /\ Mp4Table[o.raw] # NoSlice

\* objects of a loaded environment; raw is NoBlob when obj.read() raises or no
\* attribute holds bytes; wr is whether the open() of line 226 succeeds (a
\* failure is caught at line 232 and the object is skipped)
AdapterObjects ==
    {o \in [type : {"VideoClip", "Texture2D"}, raw : ObjBlobs \cup {NoBlob}, wr : BOOLEAN] :
        /\ o.type \notin VideoTypes => o.raw = NoBlob
        /\ ~o.wr => ReachesWrite(o)}

RECURSIVE ObjectLists(_)
ObjectLists(n) ==
    IF n = 0 THEN {<<>>}
    ELSE LET S == ObjectLists(n - 1)
         IN  S \cup {Append(q, o) : q \in {x \in S : Len(x) = n - 1}, o \in AdapterObjects}

AdapterResults == ObjectLists(MaxObjects)

\* lines 175-234: indices (enumerate's i) of the objects written and counted
Counted(objs) == {i \in 0..(Len(objs) - 1) : ReachesWrite(objs[i + 1]) /\ objs[i + 1].wr}

----------------------------------------------------------------------------
\* main

parseIdle ==
    /\ data = EmptyBuffer /\ start_pos = 0 /\ apos = 0 /\ atoms = <<>>
    /\ ppc = "idle" /\ video_data = NoSlice

scanIdle ==
    /\ content = EmptyBuffer /\ pos = 0 /\ video_index = 0 /\ extracted_count = 0
    /\ calls = <<>>

InitMain ==
    /\ input \in Inputs
    /\ out_ok \in BOOLEAN
    /\ files = <<>> /\ idx = 0 /\ pc = "start"
    /\ extracted = 0 /\ total_extracted = 0 /\ exit_code = -1
    /\ disk = {} /\ log = <<>>
    /\ scanIdle /\ parseIdle

Returned(strategy, n) == Append(log, [file |-> idx, strategy |-> strategy, count |-> n])

\* lines 251-253
InputMissing ==
    /\ pc = "start"
    /\ input.kind = "missing"
    /\ exit_code' = 1
    /\ pc' = "exited"
    /\ UNCHANGED <<input, out_ok, files, idx, extracted, total_extracted,
                   parseVars, scanVars, disk, log>>

\* line 255 raising: the exception reaches the interpreter
OutDirFails ==
    /\ pc = "start"
    /\ input.kind # "missing"
    /\ ~out_ok
    /\ exit_code' = 1
    /\ pc' = "exited"
    /\ UNCHANGED <<input, out_ok, files, idx, extracted, total_extracted,
                   parseVars, scanVars, disk, log>>

\* lines 255-270
Collect ==
    /\ pc = "start"
    /\ input.kind # "missing"
    /\ out_ok
    /\ files' = Collected(input)
    /\ idx' = 1
    /\ total_extracted' = 0
    /\ pc' = "loop"
    /\ UNCHANGED <<input, out_ok, extracted, exit_code, parseVars, scanVars, disk, log>>

\* lines 272-274
FileStart ==
    /\ pc = "loop"
    /\ idx <= Len(files)
    /\ files[idx].stat_ok
    /\ pc' = "structured"
    /\ UNCHANGED <<input, out_ok, files, idx, extracted, total_extracted, exit_code,
                   parseVars, scanVars, disk, log>>

\* line 273 raising: os.path.getsize on a dangling link
StatFails ==
    /\ pc = "loop"
    /\ idx <= Len(files)
    /\ ~files[idx].stat_ok
    /\ exit_code' = 1
    /\ pc' = "exited"
    /\ UNCHANGED <<input, out_ok, files, idx, extracted, total_extracted,
                   parseVars, scanVars, disk, log>>

\* line 277, lines 155-166 raising (import, ensure_dir, UnityPy.load): 238-240
StructuredFails ==
    /\ pc = "structured"
    /\ extracted' = 0
    /\ log' = Returned("structured", 0)
    /\ pc' = "decide"
    /\ UNCHANGED <<input, out_ok, files, idx, total_extracted, exit_code,
                   parseVars, scanVars, disk>>

\* line 277, lines 155-236
StructuredRuns ==
    /\ pc = "structured"
    /\ files[idx].content # Unreadable
    /\ \E objs \in AdapterResults :
         /\ extracted' = Cardinality(Counted(objs))
         /\ disk' = disk \cup
              {[dir |-> UnityPyDir(files[idx]),
                name |-> <<"unitypy", objs[i + 1].type, i>>,
                by |-> idx] : i \in Counted(objs)}
         /\ log' = Returned("structured", Cardinality(Counted(objs)))
    /\ pc' = "decide"
    /\ UNCHANGED <<input, out_ok, files, idx, total_extracted, exit_code,
                   parseVars, scanVars>>

\* line 280
\* (the fallback run unconditionally, a fault C3 must detect)
NeedsFallbackMut(n) == TRUE
NeedsFallback(n) == n = 0

\* lines 280-281: the fallback is called
Fallback ==
    /\ pc = "decide"
    /\ NeedsFallback(extracted)
    /\ pc' = "scan_open"
    /\ UNCHANGED <<input, out_ok, files, idx, extracted, total_extracted, exit_code,
                   parseVars, scanVars, disk, log>>

\* line 280: the fallback is not called
NoFallback ==
    /\ pc = "decide"
    /\ ~NeedsFallback(extracted)
    /\ pc' = "report"
    /\ UNCHANGED <<input, out_ok, files, idx, extracted, total_extracted, exit_code,
                   parseVars, scanVars, disk, log>>

\* lines 283-284
Report ==
    /\ pc = "report"
    /\ total_extracted' = total_extracted + extracted
    /\ log' = Returned("report", extracted)
    /\ idx' = idx + 1
    /\ pc' = "loop"
    /\ UNCHANGED <<input, out_ok, files, extracted, exit_code, parseVars, scanVars, disk>>

\* lines 286-287, and the interpreter's normal exit
Finish ==
    /\ pc = "loop"
    /\ idx > Len(files)
    /\ exit_code' = 0
    /\ pc' = "exited"
    /\ UNCHANGED <<input, out_ok, files, idx, extracted, total_extracted,
                   parseVars, scanVars, disk, log>>

----------------------------------------------------------------------------
\* extract_unity_videos

MinVideoLen == 1000

\* line 145
\* (an advance past a whole 8-byte header, a fault C4 must detect)
NextSearchPosMut(p) == p + 8
NextSearchPos(p) == p + 4

\* line 134: video_data and len(video_data) > 1000
Accepts(v) == v # NoSlice /\ SliceLen(v) > 0 /\ SliceLen(v) > MinVideoLen

\* line 116
Found == Find(content, FTYP, pos)

\* lines 98-112
ScanOpen ==
    /\ pc = "scan_open"
    /\ files[idx].content # Unreadable
    /\ content' = files[idx].content
    /\ pos' = 0
    /\ video_index' = 0
    /\ extracted_count' = 0
    /\ calls' = <<>>
    /\ pc' = "scan"
    /\ UNCHANGED <<drvVars, extracted, parseVars, disk, log>>

\* lines 103-106 raising (ensure_dir, open, read): 149-151
ScanOpenFails ==
    /\ pc = "scan_open"
    /\ extracted' = 0
    /\ log' = Returned("fallback", 0)
    /\ pc' = "report"
    /\ UNCHANGED <<drvVars, parseVars, scanVars, disk>>

\* lines 116-118, 147
ScanDone ==
    /\ pc = "scan"
    /\ Found = -1
    /\ pos' = -1
    /\ extracted' = extracted_count
    /\ log' = Returned("fallback", extracted_count)
    /\ pc' = "report"
    /\ UNCHANGED <<drvVars, parseVars, content, video_index, extracted_count, calls, disk>>

\* lines 116-123
ScanSkip ==
    /\ pc = "scan"
    /\ Found # -1
    /\ Found < 4
    /\ pos' = Found + 1
    /\ UNCHANGED <<drvVars, pc, extracted, parseVars, content, video_index,
                   extracted_count, calls, disk, log>>

\* lines 116-134, 145: the candidate is not accepted
ScanReject ==
    /\ pc = "scan"
    /\ Found # -1
    /\ ~(Found < 4)
    /\ ~(Found - 4 < 0)
    /\ ~Accepts(extract_mp4_video(content, Found - 4))
    /\ calls' = Append(calls, Found - 4)
    /\ pos' = NextSearchPos(Found)
    /\ UNCHANGED <<drvVars, pc, extracted, parseVars, content, video_index,
                   extracted_count, disk, log>>

\* lines 116-145: the candidate is accepted and written
ScanWrite ==
    /\ pc = "scan"
    /\ Found # -1
    /\ ~(Found < 4)
    /\ ~(Found - 4 < 0)
    /\ Accepts(extract_mp4_video(content, Found - 4))
    /\ calls' = Append(calls, Found - 4)
    /\ disk' = disk \cup {[dir |-> VideosDir(files[idx]),
                           name |-> <<"video", video_index>>,
                           by |-> idx]}
    /\ extracted_count' = extracted_count + 1
    /\ video_index' = video_index + 1
    /\ pos' = NextSearchPos(Found)
    /\ UNCHANGED <<drvVars, pc, extracted, parseVars, content, log>>

\* lines 116-138 with open() or write() raising: 149-151
ScanWriteFails ==
    /\ pc = "scan"
    /\ Found # -1
    /\ ~(Found < 4)
    /\ ~(Found - 4 < 0)
    /\ Accepts(extract_mp4_video(content, Found - 4))
    /\ calls' = Append(calls, Found - 4)
    /\ pos' = Found
    /\ \E outcome \in {"open_fails", "write_fails"} :
         disk' = IF outcome = "write_fails"
                 THEN disk \cup {[dir |-> VideosDir(files[idx]),
                                  name |-> <<"video", video_index>>,
                                  by |-> idx]}
                 ELSE disk
    /\ extracted' = 0
    /\ log' = Returned("fallback", 0)
    /\ pc' = "report"
    /\ UNCHANGED <<drvVars, parseVars, content, video_index, extracted_count>>

NextScan ==
    \/ ScanOpen \/ ScanOpenFails \/ ScanDone
    \/ ScanSkip \/ ScanReject \/ ScanWrite \/ ScanWriteFails

NextMain ==
    \/ InputMissing \/ OutDirFails \/ Collect
    \/ FileStart \/ StatFails
    \/ StructuredFails \/ StructuredRuns
    \/ Fallback \/ NoFallback
    \/ NextScan
    \/ Report \/ Finish

\* the whole program on small inputs
SpecMain == InitMain /\ [][NextMain]_vars

\* extract_unity_videos on one file, over every buffer
ScanFile(c) == [name |-> <<"a", ".", "x">>, stat_ok |-> TRUE, content |-> c]

InitScan ==
    /\ \E c \in Buffers :
         /\ input = [kind |-> "file", entries |-> <<ScanFile(c)>>]
         /\ files = <<ScanFile(c)>>
    /\ out_ok = TRUE
    /\ idx = 1 /\ pc = "scan_open"
    /\ extracted = 0 /\ total_extracted = 0 /\ exit_code = -1
    /\ disk = {} /\ log = <<>>
    /\ scanIdle /\ parseIdle

SpecScan == InitScan /\ [][NextScan]_vars

----------------------------------------------------------------------------
\* Claims about the driver and the scanner

Events(f, strategy) == {i \in 1..Len(log) : log[i].file = f /\ log[i].strategy = strategy}

C3_PolicyOf(f) ==
    /\ Cardinality(Events(f, "structured")) <= 1
    /\ Cardinality(Events(f, "fallback")) <= 1
    /\ Cardinality(Events(f, "report")) <= 1
    \* the fallback ran only after Structured returned zero
    /\ \A j \in Events(f, "fallback") :
         \E i \in Events(f, "structured") : i < j /\ log[i].count = 0
    \* once the file is reported: both or only Structured ran, and the
    \* reported count is the count of the one strategy that decided it
    /\ \A r \in Events(f, "report") :
         \E i \in Events(f, "structured") :
            /\ i < r
            /\ IF log[i].count = 0
               THEN \E j \in Events(f, "fallback") :
                       i < j /\ j < r /\ log[r].count = log[j].count
               ELSE Events(f, "fallback") = {} /\ log[r].count = log[i].count

\* C3: per input file, Structured is attempted first and once; the fallback
\* scanner runs once if and only if Structured returned zero, never after a
\* positive count; the count reported comes from exactly one strategy.
C3_Policy == \A f \in 1..Len(files) : C3_PolicyOf(f)

\* a file reported from the fallback and a file reported from Structured
C3_Witness ==
    /\ \E f \in 1..Len(files) :
         Events(f, "report") # {} /\ Events(f, "fallback") # {}
    /\ \E f \in 1..Len(files) :
         Events(f, "report") # {} /\ Events(f, "fallback") = {}

\* offsets of every occurrence of 'ftyp' in b
Occurrences(b) == {i \in 0..(Len(b.head) - 4) : TagAt(b, i, BufLen(b), FTYP)}

StrictlyIncreasing(q) == \A i \in 1..(Len(q) - 1) : q[i] < q[i + 1]
Range(q) == {q[i] : i \in 1..Len(q)}

C4_Calls ==
    /\ StrictlyIncreasing(calls)
    \* at the loop head: the occurrences below the cursor, each once
    /\ pc = "scan" =>
         Range(calls) = {o - 4 : o \in {x \in Occurrences(content) : x >= 4 /\ x < pos}}
    \* at the break of line 118: every occurrence at offset >= 4
    /\ (pc = "report" /\ pos = -1) =>
         Range(calls) = {o - 4 : o \in {x \in Occurrences(content) : x >= 4}}

WrittenBy(f) == {d \in disk : d.by = f}

\* C5: the files written for the file are exactly video_0 .. video_(k-1) for
\* the k candidates accepted so far, and the count the scanner returns equals
\* the number of output files it wrote.
C5_Numbering ==
    /\ {d.name : d \in WrittenBy(idx)} = {<<"video", k>> : k \in 0..(video_index - 1)}
    /\ pc = "report" => extracted = Cardinality(WrittenBy(idx))

\* C6: no output file is written for two different input files.
C6_NoSharedOutput ==
    \A d1, d2 \in disk : (d1.dir = d2.dir /\ d1.name = d2.name) => d1.by = d2.by

\* C7: once the input path exists and the files are enumerated (idx >= 1), a
\* failure while handling one file is contained: the process ends with exit
\* code 0, not 1, after reporting every enumerated file.
C7_BestEffort ==
    (pc = "exited" /\ idx >= 1) =>
        /\ exit_code = 0
        /\ \A f \in 1..Len(files) : Events(f, "report") # {}

====
